---------------------------- MODULE Spec2Model ----------------------------
(***************************************************************************)
(* A model of the two command-line scripts of the repository:              *)
(*   check_gh_repos.py            local directories vs. GitHub repositories *)
(*   youtube_thumbnail_grabber.py thumbnails for files named "... [id].ext" *)
(*                                                                         *)
(* Text is a sequence of one-character strings, so that the string         *)
(* functions of the code (strip, replace, splitlines, json.loads,          *)
(* re.search, os.path.splitext) are computed character by character.       *)
(***************************************************************************)
EXTENDS Integers, Sequences, FiniteSets, TLC

VARIABLES
    \* ---- parse_paginated_json called on its own (SpecParse)
    pages,        \* the pages of the API response: a sequence of sequences of names
    layout,       \* how each page is written: "compact" or "indented"
    output,       \* the raw text given to parse_paginated_json
    parsed,       \* what the call produced: [raised, repos]
    ppc,          \* "input" before the call, "done" after it
    \* ---- extract_video_id called on its own (SpecExtract)
    filename,     \* the file name given to extract_video_id
    video_id,     \* what the call returned: [found, id]
    epc,          \* "input" before the call, "done" after it
    \* ---- one run of one of the two scripts (Spec)
    prog,         \* which script runs: "check_gh_repos" or "youtube_thumbnail_grabber"
    pc,           \* where the run is
    printed,      \* what the run printed so far: a sequence of messages
    calls,        \* the external processes run so far, each with its outcome
    exitCode,     \* the exit status of the process; -1 while it runs
    \* ---- check_gh_repos.py
    argUser,      \* -u/--username: a login, or NoUser when the flag is absent
    inverse,      \* -i/--inverse
    quiet,        \* -q/--quiet
    verbose,      \* -v/--verbose
    dirState,     \* the directory argument: "missing", "file" or "dir"
    localDirs,    \* the names of the subdirectories of the directory
    remote,       \* the names of the repositories the account holds on GitHub
    username,     \* the account the run checks against
    endpoints,    \* get_user_repos: the endpoints still to try
    fetch,        \* get_user_repos: how the bulk listing ended
    stdout,       \* get_user_repos: the text the listing that exited 0 wrote
    all_repos,    \* check_missing_local: the records get_user_repos returned
    todo,         \* check_all_repos: the subdirectories still to check, sorted
    results,      \* the results dictionary: name -> exists (or exists_locally)
    \* ---- youtube_thumbnail_grabber.py
    execute,      \* -x/--execute
    recursive,    \* -R/--recursive
    tdir,         \* the directory argument: "missing", "file" or "dir"
    files,        \* the files under the directory: [dir, name], dir "." or "sub"
    files0,       \* the files under the directory when the run started
    tasks,        \* process_directory: the files with an identifier still to process
    total_to_process,
    files_processed,
    files_successful,
    located,      \* download_thumbnail: the file find_downloaded_thumbnail returned
    attempts,     \* the calls of download_thumbnail of this run, with how each ended, and
                  \* those of the run before that saved a thumbnail
    run           \* the number of the run of the script on this directory

parseVars == <<pages, layout, output, parsed, ppc>>
extractVars == <<filename, video_id, epc>>
runVars == <<prog, pc, printed, calls, exitCode>>
ghVars == <<argUser, inverse, quiet, verbose, dirState, localDirs, remote,
            username, endpoints, fetch, stdout, all_repos, todo, results>>
ytVars == <<execute, recursive, tdir, files, files0, tasks, total_to_process,
            files_processed, files_successful, located, attempts, run>>
notGh == <<parseVars, extractVars, ytVars>>
notYt == <<parseVars, extractVars, ghVars>>

(***************************************************************************)
(* Bounds of the model.                                                    *)
(***************************************************************************)
MaxPages == 2
MaxRecs == 2
MaxLen == 5
MaxRuns == 2

(***************************************************************************)
(* Characters and text.                                                    *)
(***************************************************************************)
Quote == "\""
NL == "\n"
SP == " "
\* str.strip() and the JSON grammar agree on whitespace for the characters used here
Whitespace == {SP, NL}

\* the least and the greatest of a non-empty set of indices
Least(S) == CHOOSE i \in S : \A j \in S : i <= j
Greatest(S) == CHOOSE i \in S : \A j \in S : j <= i

\* str.strip(): what lies between the first and the last character that is not
\* whitespace
Strip(s) ==
    LET inked == {i \in 1..Len(s) : s[i] \notin Whitespace}
    IN  IF inked = {} THEN <<>> ELSE SubSeq(s, Least(inked), Greatest(inked))

\* str.replace("][", "]\n["): every occurrence, left to right.  Two occurrences
\* of "][" cannot overlap, so every index i with s[i] = "]" and s[i+1] = "[" is
\* replaced: a line break goes in after it.
ReplaceBoundary(s) ==
    LET at == {i \in 1..(Len(s) - 1) : s[i] = "]" /\ s[i + 1] = "["}
        \* where the character s[i] lands
        to == [i \in 1..Len(s) |-> i + Cardinality({b \in at : b < i})]
    IN  [k \in 1..(Len(s) + Cardinality(at)) |->
            IF \E i \in 1..Len(s) : to[i] = k
            THEN s[CHOOSE i \in 1..Len(s) : to[i] = k]
            ELSE NL]

\* str.splitlines(): the lines between line breaks; no empty last line after a
\* trailing break
SplitLines(s) ==
    LET breaks == {i \in 1..Len(s) : s[i] = NL}
        starts == {st \in {1} \cup {b + 1 : b \in breaks} : st <= Len(s)}
        nth(k) == CHOOSE st \in starts : Cardinality({x \in starts : x < st}) = k - 1
        stop(st) == LET after == {b \in breaks : b >= st}
                    IN  IF after = {} THEN Len(s) ELSE Least(after) - 1
    IN  [k \in 1..Cardinality(starts) |-> SubSeq(s, nth(k), stop(nth(k)))]

(***************************************************************************)
(* json.loads, for the JSON made of strings, arrays and objects.  A parsed *)
(* value is a record with the same four fields whatever its type, so that  *)
(* two values can always be compared.                                      *)
(***************************************************************************)
StrVal(s) == [t |-> "str", s |-> s, keys |-> <<>>, items |-> <<>>]
ArrVal(items) == [t |-> "arr", s |-> <<>>, keys |-> <<>>, items |-> items]
ObjVal(keys, items) == [t |-> "obj", s |-> <<>>, keys |-> keys, items |-> items]

ParseFail == [ok |-> FALSE, val |-> StrVal(<<>>), next |-> 0]
ParseOk(v, n) == [ok |-> TRUE, val |-> v, next |-> n]

\* the index of the first character at or after i that is not whitespace; past
\* the end when there is none
SkipWs(s, i) ==
    LET inked == {j \in i..Len(s) : s[j] \notin Whitespace}
    IN  IF inked # {} THEN Least(inked)
        ELSE IF i > Len(s) THEN i ELSE Len(s) + 1

\* the index of the quote closing a string whose content starts at i; 0 when a
\* line break (a control character, which JSON forbids inside a string) or the
\* end of the text comes first
StringEnd(s, i) ==
    LET stops == {j \in i..Len(s) : s[j] \in {Quote, NL}}
    IN  IF stops = {} THEN 0
        ELSE IF s[Least(stops)] = Quote THEN Least(stops) ELSE 0

\* s[i] is the opening quote
ParseString(s, i) ==
    LET j == StringEnd(s, i + 1)
    IN  IF j = 0 THEN ParseFail
        ELSE ParseOk(StrVal(SubSeq(s, i + 1, j - 1)), j + 1)

RECURSIVE ParseValue(_, _), ParseElements(_, _, _), ParseMembers(_, _, _, _)

ParseValue(s, i) ==
    IF i > Len(s) THEN ParseFail
    ELSE IF s[i] = Quote THEN ParseString(s, i)
    ELSE IF s[i] = "["
         THEN LET j == SkipWs(s, i + 1)
              IN  IF j <= Len(s) /\ s[j] = "]"
                  THEN ParseOk(ArrVal(<<>>), j + 1)
                  ELSE ParseElements(s, j, <<>>)
    ELSE IF s[i] = "{"
         THEN LET j == SkipWs(s, i + 1)
              IN  IF j <= Len(s) /\ s[j] = "}"
                  THEN ParseOk(ObjVal(<<>>, <<>>), j + 1)
                  ELSE ParseMembers(s, j, <<>>, <<>>)
    ELSE ParseFail

\* the elements of an array, i at the start of the next one
ParseElements(s, i, acc) ==
    LET r == ParseValue(s, i)
        j == SkipWs(s, r.next)
    IN  IF ~r.ok THEN ParseFail
        ELSE IF j > Len(s) THEN ParseFail
        ELSE IF s[j] = "," THEN ParseElements(s, SkipWs(s, j + 1), Append(acc, r.val))
        ELSE IF s[j] = "]" THEN ParseOk(ArrVal(Append(acc, r.val)), j + 1)
        ELSE ParseFail

\* the members of an object, i at the start of the next key
ParseMembers(s, i, keys, items) ==
    IF i > Len(s) \/ s[i] # Quote THEN ParseFail
    ELSE
    LET k == ParseString(s, i)
        c == SkipWs(s, k.next)
        r == ParseValue(s, SkipWs(s, c + 1))
        j == SkipWs(s, r.next)
    IN  IF ~k.ok THEN ParseFail
        ELSE IF c > Len(s) \/ s[c] # ":" THEN ParseFail
        ELSE IF ~r.ok THEN ParseFail
        ELSE IF j > Len(s) THEN ParseFail
        ELSE IF s[j] = ","
             THEN ParseMembers(s, SkipWs(s, j + 1), Append(keys, k.val.s), Append(items, r.val))
        ELSE IF s[j] = "}"
             THEN ParseOk(ObjVal(Append(keys, k.val.s), Append(items, r.val)), j + 1)
        ELSE ParseFail

\* json.loads(s): one value, whitespace allowed around it, nothing after it.
\* ok = FALSE stands for json.JSONDecodeError.
JsonLoads(s) ==
    LET r == ParseValue(s, SkipWs(s, 1))
    IN  IF r.ok /\ SkipWs(s, r.next) > Len(s) THEN r ELSE ParseFail

(***************************************************************************)
(* parse_paginated_json                                                    *)
(***************************************************************************)
Returned(repos) == [raised |-> FALSE, repos |-> repos]
\* the JSONDecodeError leaves the function: nothing is returned
Raised == [raised |-> TRUE, repos |-> <<>>]

\* the chunks the fallback loop parses: the stripped, non-blank lines of the
\* output after a line break is put at every "]["
Chunks(out) ==
    LET lines == SplitLines(ReplaceBoundary(out))
        stripped == [k \in 1..Len(lines) |-> Strip(lines[k])]
    IN  SelectSeq(stripped, LAMBDA c : c # <<>>)

\* a loop that passes over a chunk json.loads rejects and keeps the records of
\* the others
RECURSIVE ParseChunksSkipping(_, _)
ParseChunksSkipping(chunks, repos) ==
    IF chunks = <<>> THEN Returned(repos)
    ELSE LET data == JsonLoads(Head(chunks))
         IN  IF ~data.ok THEN ParseChunksSkipping(Tail(chunks), repos)
             ELSE IF data.val.t = "arr"
                  THEN ParseChunksSkipping(Tail(chunks), repos \o data.val.items)
                  ELSE ParseChunksSkipping(Tail(chunks), Append(repos, data.val))

\* the loop over the chunks: raise at the first chunk json.loads rejects
RECURSIVE ParseChunks(_, _)
ParseChunks(chunks, repos) ==
    IF chunks = <<>> THEN Returned(repos)
    ELSE LET data == JsonLoads(Head(chunks))
         IN  IF ~data.ok THEN Raised
             ELSE IF data.val.t = "arr"
                  THEN ParseChunks(Tail(chunks), repos \o data.val.items)
                  ELSE ParseChunks(Tail(chunks), Append(repos, data.val))

parse_paginated_json(text) ==
    LET out == Strip(text)
        whole == JsonLoads(out)
    IN  IF out = <<>> THEN Returned(<<>>)
        ELSE IF whole.ok
             THEN Returned(IF whole.val.t = "arr" THEN whole.val.items ELSE <<whole.val>>)
             ELSE ParseChunks(Chunks(out), <<>>)

(***************************************************************************)
(* The response the API sends: each page a JSON array of repository        *)
(* records, the pages written one after the other with nothing between.    *)
(***************************************************************************)
NameKey == <<"n", "a", "m", "e">>

Record(name) == ObjVal(<<NameKey>>, <<StrVal(name)>>)

QuoteText(s) == <<Quote>> \o s \o <<Quote>>

\* {"name":"<name>"}
DumpRecordCompact(name) ==
    <<"{">> \o QuoteText(NameKey) \o <<":">> \o QuoteText(name) \o <<"}">>

\* the same object over several lines, as an indenting serialiser writes it
DumpRecordIndented(name) ==
    <<"{", NL, SP, SP>> \o QuoteText(NameKey) \o <<":", SP>> \o QuoteText(name)
        \o <<NL, SP, "}">>

RECURSIVE JoinRecords(_, _, _)
JoinRecords(names, sep, how) ==
    IF names = <<>> THEN <<>>
    ELSE LET one == IF how = "compact" THEN DumpRecordCompact(Head(names))
                    ELSE DumpRecordIndented(Head(names))
         IN  IF Len(names) = 1 THEN one
             ELSE one \o sep \o JoinRecords(Tail(names), sep, how)

DumpPage(names, how) ==
    IF names = <<>> THEN <<"[", "]">>
    ELSE IF how = "compact" THEN <<"[">> \o JoinRecords(names, <<",">>, how) \o <<"]">>
    ELSE <<"[", NL, SP>> \o JoinRecords(names, <<",", NL, SP>>, how) \o <<NL, "]">>

RECURSIVE Concat(_)
Concat(texts) == IF texts = <<>> THEN <<>> ELSE Head(texts) \o Concat(Tail(texts))

DumpPages(ps, how) == Concat([k \in 1..Len(ps) |-> DumpPage(ps[k], how)])

\* the records of all the pages, in order
AllRecords(ps) == Concat([k \in 1..Len(ps) |-> [i \in 1..Len(ps[k]) |-> Record(ps[k][i])]])

(***************************************************************************)
(* SpecParse: parse_paginated_json applied to a well-formed response.      *)
(***************************************************************************)
\* values of the "name" string of a record
RecordNames == { <<"a">>, <<"b">>, <<"]", "[">>, <<"[", "]">> }

SeqsUpTo(S, n) == UNION { [1..k -> S] : k \in 0..n }

PageSet == SeqsUpTo(RecordNames, MaxRecs)

ParseStart ==
    /\ pages \in (SeqsUpTo(PageSet, MaxPages) \ {<<>>})
    /\ layout \in {"compact", "indented"}
    /\ output = DumpPages(pages, layout)
    /\ parsed = Returned(<<>>)
    /\ ppc = "input"

\* the variables of this part when another part of the model runs
ParseIdle ==
    /\ pages = <<>>
    /\ layout = "compact"
    /\ output = <<>>
    /\ parsed = Returned(<<>>)
    /\ ppc = "idle"

ParsePaginatedJson ==
    /\ ppc = "input"
    /\ parsed' = parse_paginated_json(output)
    /\ ppc' = "done"
    /\ UNCHANGED <<pages, layout, output>>

(***************************************************************************)
(* extract_video_id: re.search(r'\[([^\]]+)\]', filename)                  *)
(***************************************************************************)
None == [found |-> FALSE, id |-> <<>>]
Some(id) == [found |-> TRUE, id |-> id]

\* [^\]]+ is greedy: from i it takes every character up to the next "]" or the
\* end of the name; the result is the index after the last character taken
RECURSIVE RunEnd(_, _)
RunEnd(s, i) ==
    IF i <= Len(s) /\ s[i] # "]" THEN RunEnd(s, i + 1) ELSE i

\* the pattern with * in the place of +: an empty pair matches too
MatchesAtEmptyAllowed(s, i) ==
    /\ s[i] = "["
    /\ RunEnd(s, i + 1) <= Len(s)

\* the pattern matches at i: "[", one or more characters that are not "]", "]".
\* Giving characters of the run back cannot help: the one after a shorter run
\* is not "]".
MatchesAt(s, i) ==
    /\ s[i] = "["
    /\ RunEnd(s, i + 1) > i + 1
    /\ RunEnd(s, i + 1) <= Len(s)

\* re.search tries the start positions from left to right
RECURSIVE SearchFrom(_, _)
SearchFrom(s, i) ==
    IF i > Len(s) THEN None
    ELSE IF MatchesAt(s, i) THEN Some(SubSeq(s, i + 1, RunEnd(s, i + 1) - 1))
    ELSE SearchFrom(s, i + 1)

extract_video_id(name) == SearchFrom(name, 1)

(***************************************************************************)
(* SpecExtract: extract_video_id applied to a file name.                   *)
(***************************************************************************)
FileNameChars == {"[", "]", "a", "."}

IntroAbc123 == <<"I", "n", "t", "r", "o", " ", "[", "a", "b", "c", "1", "2", "3", "]", ".", "m", "p", "4">>
NoBrackets == <<"n", "o", "-", "b", "r", "a", "c", "k", "e", "t", "s", ".", "m", "p", "4">>
FirstSecond == <<"[", "f", "i", "r", "s", "t", "]", "[", "s", "e", "c", "o", "n", "d", "]", ".", "m", "p", "4">>

FileNames == SeqsUpTo(FileNameChars, MaxLen) \cup {IntroAbc123, NoBrackets, FirstSecond}

ExtractStart ==
    /\ filename \in FileNames
    /\ video_id = None
    /\ epc = "input"

ExtractIdle ==
    /\ filename = <<>>
    /\ video_id = None
    /\ epc = "idle"

ExtractVideoId ==
    /\ epc = "input"
    /\ video_id' = extract_video_id(filename)
    /\ epc' = "done"
    /\ UNCHANGED filename

(***************************************************************************)
(* Names, their order, and what a run leaves behind.                       *)
(***************************************************************************)
UpperCase == <<"A", "B", "C", "D", "E", "F", "G", "H", "I", "J", "K", "L", "M",
               "N", "O", "P", "Q", "R", "S", "T", "U", "V", "W", "X", "Y", "Z">>
LowerCase == <<"a", "b", "c", "d", "e", "f", "g", "h", "i", "j", "k", "l", "m",
               "n", "o", "p", "q", "r", "s", "t", "u", "v", "w", "x", "y", "z">>

LowerChar(c) ==
    IF \E i \in 1..Len(UpperCase) : UpperCase[i] = c
    THEN LowerCase[CHOOSE i \in 1..Len(UpperCase) : UpperCase[i] = c]
    ELSE c

\* str.lower()
Lower(s) == [i \in 1..Len(s) |-> LowerChar(s[i])]

\* the characters of the names of the model, in code point order
CharOrder ==
    <<" ", "-", ".", "0", "1", "2", "3", "4", "5", "6", "7", "8", "9">> \o UpperCase
        \o <<"[", "]", "_">> \o LowerCase

CharRank(c) == CHOOSE i \in 1..Len(CharOrder) : CharOrder[i] = c

\* a < b for two strings
RECURSIVE LexLess(_, _)
LexLess(a, b) ==
    IF b = <<>> THEN FALSE
    ELSE IF a = <<>> THEN TRUE
    ELSE IF Head(a) = Head(b) THEN LexLess(Tail(a), Tail(b))
    ELSE CharRank(Head(a)) < CharRank(Head(b))

\* sorted(names)
RECURSIVE SortNames(_)
SortNames(S) ==
    IF S = {} THEN <<>>
    ELSE LET m == CHOOSE x \in S : \A y \in S : x = y \/ LexLess(x, y)
         IN  <<m>> \o SortNames(S \ {m})

Range(f) == { f[i] : i \in DOMAIN f }

\* a printed message: what it says, the name it is about, the counts it shows
P(msg) == [msg |-> msg, name |-> <<>>, n |-> <<>>]
PN(msg, name) == [msg |-> msg, name |-> name, n |-> <<>>]
PC(msg, counts) == [msg |-> msg, name |-> <<>>, n |-> counts]

\* a blocking subprocess.run and how it ended
Call(cmd, arg, outcome) == [cmd |-> cmd, arg |-> arg, outcome |-> outcome]

\* sys.exit(code) after printing msgs
Exit(code, msgs) ==
    /\ printed' = printed \o msgs
    /\ exitCode' = code
    /\ pc' = "exited"

\* an exception nothing catches: the interpreter prints the traceback and the
\* process ends with status 1
Crash ==
    /\ printed' = Append(printed, P("traceback"))
    /\ exitCode' = 1
    /\ pc' = "crashed"

\* subprocess.run without timeout= on a child that never ends: the call does
\* not return, and the script does nothing more
Hang == pc' = "blocked"

(***************************************************************************)
(* check_gh_repos.py                                                       *)
(***************************************************************************)
NoUser == <<>>
Me == <<"m", "e">>
MeUpper == <<"M", "e">>
Other == <<"o">>

ProjA == <<"p", "r", "o", "j", "-", "a">>
ProjB == <<"p", "r", "o", "j", "-", "b">>
DotGithub == <<".", "g", "i", "t", "h", "u", "b">>
RepoNames == {ProjA, ProjB, DotGithub}

\* get_subdirectories: the subdirectories whose name does not start with "."
get_subdirectories ==
    IF dirState = "missing" THEN {}
    ELSE { d \in localDirs : d[1] # "." }

\* a check that only asks whether gh could be started
check_gh_installed_ignoring_status(o) == o # "not_installed"

\* check_gh_installed: how `gh auth status` can end.  TimeoutExpired is not
\* among the exceptions the function catches.
AuthOutcomes == {"ok", "nonzero", "not_installed", "timeout"}

check_gh_installed(o) == o = "ok"

\* get_authenticated_username: how `gh api user --jq .login` can end, and the
\* login it gives (NoUser for None)
IdentityOutcomes == {"login", "empty", "nonzero", "timeout", "exception"}

get_authenticated_username(o) == IF o = "login" THEN Me ELSE NoUser

\* check_github_repo_exists: how `gh api /repos/<user>/<name>` can end.  GitHub
\* answers 200 for a repository the account holds and 404 for one it does
\* not; any lookup can also fail for another reason.
LookupOutcomes(name) ==
    (IF name \in remote THEN {"ok"} ELSE {"not_found"})
        \cup {"unexpected", "timeout", "exception"}

check_github_repo_exists(o) == o = "ok"

\* what check_github_repo_exists prints
LookupMessages(name, o) ==
    IF o = "unexpected" THEN <<PN("unexpected_error", name)>>
    ELSE IF o = "timeout" THEN <<PN("timeout_checking", name)>>
    ELSE IF o = "exception" THEN <<PN("error_checking", name)>>
    ELSE <<>>

\* the texts `gh api <endpoint> --paginate` can write for the repositories of
\* the account: one page, or one page for each repository, whole or cut short
ListingPages(onePage) ==
    LET names == SortNames(remote)
    IN  IF onePage \/ names = <<>> THEN <<names>>
        ELSE [k \in 1..Len(names) |-> <<names[k]>>]

ListingTexts ==
    LET whole == { DumpPages(ListingPages(b), "compact") : b \in BOOLEAN }
    IN  whole \cup { SubSeq(t, 1, Len(t) - 1) : t \in whole }

ListOutcomes == {"ok", "nonzero", "timeout", "exception"}

\* repo["name"]
RepoName(repo) ==
    repo.items[CHOOSE i \in 1..Len(repo.keys) : repo.keys[i] = NameKey].s

HasName(repo) == repo.t = "obj" /\ \E i \in 1..Len(repo.keys) : repo.keys[i] = NameKey

\* the names a results dictionary holds with the given value
NamesWith(res, value) == { n \in DOMAIN res : res[n] = value }

ItemLines(msg, names) == [k \in 1..Len(names) |-> PN(msg, names[k])]

\* print_summary
print_summary(res, inv) ==
    LET total == Cardinality(DOMAIN res)
        yes == SortNames(NamesWith(res, TRUE))
        no == SortNames(NamesWith(res, FALSE))
    IN  IF inv
        THEN <<PC("summary_inverse", <<total, Len(yes), Len(no)>>)>>
             \o (IF Len(no) > 0 THEN <<P("not_cloned_header")>> \o ItemLines("not_cloned", no)
                 ELSE <<>>)
             \o (IF Len(yes) > 0 THEN <<P("cloned_header")>> \o ItemLines("cloned", yes)
                 ELSE <<>>)
        ELSE <<PC("summary", <<total, Len(yes), Len(no)>>)>>
             \o (IF Len(no) > 0 THEN <<P("missing_header")>> \o ItemLines("missing", no)
                 ELSE <<>>)
             \o (IF Len(yes) > 0 THEN <<P("existing_header")>> \o ItemLines("existing", yes)
                 ELSE <<>>)

\* main, lines 433-439 and 446-452: the summary unless quiet, then the exit
\* status: 0 when no result is a gap, 1 otherwise
ExitStatus(res) == IF NamesWith(res, FALSE) = {} THEN 0 ELSE 1

SummaryAndExit(res, before) ==
    Exit(ExitStatus(res),
         before \o (IF quiet THEN <<>> ELSE print_summary(res, inverse)))

EmptyResults == [n \in {} |-> TRUE]

GhStart ==
    /\ prog = "check_gh_repos"
    /\ pc = "check_gh"
    /\ printed = <<>>
    /\ calls = <<>>
    /\ exitCode = -1
    /\ argUser \in {NoUser, Me, MeUpper, Other}
    /\ inverse \in BOOLEAN
    /\ quiet \in BOOLEAN
    /\ verbose \in BOOLEAN
    /\ dirState \in {"missing", "file", "dir"}
    /\ localDirs \in SUBSET RepoNames
    /\ dirState # "dir" => localDirs = {}
    /\ remote \in SUBSET RepoNames
    /\ username = NoUser
    /\ endpoints = <<>>
    /\ fetch = "none"
    /\ stdout = <<>>
    /\ all_repos = <<>>
    /\ todo = <<>>
    /\ results = EmptyResults

GhIdle ==
    /\ argUser = NoUser
    /\ inverse = FALSE
    /\ quiet = FALSE
    /\ verbose = FALSE
    /\ dirState = "missing"
    /\ localDirs = {}
    /\ remote = {}
    /\ username = NoUser
    /\ endpoints = <<>>
    /\ fetch = "none"
    /\ stdout = <<>>
    /\ all_repos = <<>>
    /\ todo = <<>>
    /\ results = EmptyResults

\* main, lines 393-404
CheckGhInstalled ==
    /\ prog = "check_gh_repos" /\ pc = "check_gh"
    /\ \E o \in AuthOutcomes :
        /\ calls' = Append(calls, Call("gh auth status", <<>>, o))
        /\ IF o = "timeout" THEN Crash
           ELSE IF check_gh_installed(o)
                THEN /\ pc' = "resolve_user"
                     /\ UNCHANGED <<printed, exitCode>>
                ELSE Exit(1, <<P("error_gh_not_installed_or_authenticated")>>)
    /\ UNCHANGED <<prog, ghVars>>
    /\ UNCHANGED notGh

\* main, lines 406-412
ResolveUsername ==
    /\ prog = "check_gh_repos" /\ pc = "resolve_user"
    /\ IF argUser # NoUser
       THEN /\ username' = argUser
            /\ pc' = "check_dir"
            /\ UNCHANGED <<printed, calls, exitCode>>
       ELSE \E o \in IdentityOutcomes :
            /\ calls' = Append(calls, Call("gh api user", <<>>, o))
            /\ username' = get_authenticated_username(o)
            /\ IF username' = NoUser
               THEN Exit(1, <<P("error_could_not_determine_username")>>)
               ELSE /\ pc' = "check_dir"
                    /\ UNCHANGED <<printed, exitCode>>
    /\ UNCHANGED <<prog, argUser, inverse, quiet, verbose, dirState, localDirs, remote,
                   endpoints, fetch, stdout, all_repos, todo, results>>
    /\ UNCHANGED notGh

\* main, lines 414-425
CheckDirectory ==
    /\ prog = "check_gh_repos" /\ pc = "check_dir"
    /\ IF dirState = "missing" THEN Exit(1, <<P("error_directory_not_found")>>)
       ELSE IF dirState = "file" THEN Exit(1, <<P("error_not_a_directory")>>)
       ELSE /\ printed' = printed \o (IF quiet THEN <<>> ELSE <<PN("directory_user", username)>>)
            /\ pc' = IF inverse THEN "fetch_identity" ELSE "scan"
            /\ UNCHANGED exitCode
    /\ UNCHANGED <<prog, calls, ghVars>>
    /\ UNCHANGED notGh

\* check_all_repos, lines 211-220
ScanSubdirectories ==
    /\ prog = "check_gh_repos" /\ pc = "scan"
    /\ LET subdirs == get_subdirectories
       IN  IF subdirs = {}
           THEN /\ printed' = Append(printed, P("no_subdirectories_found"))
                /\ pc' = "summary"
                /\ UNCHANGED todo
           ELSE /\ printed' = Append(printed, PC("checking_subdirectories", <<Cardinality(subdirs)>>))
                /\ todo' = SortNames(subdirs)
                /\ pc' = "check_repo"
    /\ results' = EmptyResults
    /\ UNCHANGED <<prog, calls, exitCode, argUser, inverse, quiet, verbose, dirState,
                   localDirs, remote, username, endpoints, fetch, stdout, all_repos>>
    /\ UNCHANGED notGh

\* check_all_repos, lines 222-235: one turn of the loop, with the call of
\* check_github_repo_exists (lines 48-70) it makes
CheckRepo ==
    /\ prog = "check_gh_repos" /\ pc = "check_repo"
    /\ LET repo_name == Head(todo)
       IN  \E o \in LookupOutcomes(repo_name) :
           LET exists == check_github_repo_exists(o)
           IN  /\ calls' = Append(calls, Call("gh api /repos", repo_name, o))
               /\ results' = [n \in DOMAIN results \cup {repo_name} |->
                                IF n = repo_name THEN exists ELSE results[n]]
               /\ printed' = printed \o LookupMessages(repo_name, o)
                    \o (IF (verbose /\ ~quiet) \/ exists
                        THEN <<PN(IF exists THEN "item_found" ELSE "item_missing", repo_name)>>
                        ELSE <<>>)
    /\ todo' = Tail(todo)
    /\ pc' = IF Tail(todo) = <<>> THEN "summary" ELSE "check_repo"
    /\ UNCHANGED <<prog, exitCode, argUser, inverse, quiet, verbose, dirState,
                   localDirs, remote, username, endpoints, fetch, stdout, all_repos>>
    /\ UNCHANGED notGh

\* main, lines 446-452
FinishForward ==
    /\ prog = "check_gh_repos" /\ pc = "summary"
    /\ SummaryAndExit(results, <<>>)
    /\ UNCHANGED <<prog, calls, ghVars>>
    /\ UNCHANGED notGh

\* check_missing_local, lines 254-255, and get_user_repos, lines 153-161
FetchIdentity ==
    /\ prog = "check_gh_repos" /\ pc = "fetch_identity"
    /\ \E o \in IdentityOutcomes :
        LET authenticated == get_authenticated_username(o)
        IN  /\ calls' = Append(calls, Call("gh api user", <<>>, o))
            /\ endpoints' =
                 (IF authenticated # NoUser /\ Lower(authenticated) = Lower(username)
                  THEN <<"/user/repos">> ELSE <<>>) \o <<"/users/<username>/repos">>
    /\ printed' = Append(printed, PN("fetching_all_repositories", username))
    /\ pc' = "fetch_repos"
    /\ UNCHANGED <<prog, exitCode, argUser, inverse, quiet, verbose, dirState,
                   localDirs, remote, username, fetch, stdout, all_repos, todo, results>>
    /\ UNCHANGED notGh

\* get_user_repos, lines 163-194: one turn of the loop over the endpoints
FetchRepos ==
    /\ prog = "check_gh_repos" /\ pc = "fetch_repos"
    /\ \E o \in ListOutcomes :
        /\ calls' = Append(calls, Call("gh api --paginate", <<>>, o))
        /\ \/ /\ o = "ok"
              /\ \E text \in ListingTexts :
                  LET r == parse_paginated_json(text)
                  IN  /\ stdout' = text
                      /\ IF r.raised
                         THEN /\ printed' = Append(printed, P("error_parsing_repo_data"))
                              /\ all_repos' = <<>>
                              /\ fetch' = "parse_error"
                         ELSE /\ all_repos' = r.repos
                              /\ fetch' = "listed"
                              /\ UNCHANGED printed
              /\ pc' = "reconcile"
              /\ UNCHANGED endpoints
           \/ /\ o = "nonzero"
              /\ endpoints' = Tail(endpoints)
              /\ IF Tail(endpoints) = <<>>
                 THEN /\ printed' = Append(printed, P("error_fetching_repos"))
                      /\ fetch' = "nonzero"
                      /\ pc' = "reconcile"
                 ELSE UNCHANGED <<printed, fetch, pc>>
              /\ UNCHANGED <<stdout, all_repos>>
           \/ /\ o = "timeout"
              /\ printed' = Append(printed, P("timeout_fetching_repos"))
              /\ fetch' = "timeout"
              /\ pc' = "reconcile"
              /\ UNCHANGED <<endpoints, stdout, all_repos>>
           \/ /\ o = "exception"
              /\ printed' = Append(printed, P("error_fetching_repos"))
              /\ fetch' = "exception"
              /\ pc' = "reconcile"
              /\ UNCHANGED <<endpoints, stdout, all_repos>>
    /\ UNCHANGED <<prog, exitCode, argUser, inverse, quiet, verbose, dirState,
                   localDirs, remote, username, todo, results>>
    /\ UNCHANGED notGh

\* check_missing_local, lines 257-292, then main, lines 433-439
ReconcileInverse ==
    /\ prog = "check_gh_repos" /\ pc = "reconcile"
    /\ IF all_repos = <<>>
       THEN /\ results' = EmptyResults
            /\ SummaryAndExit(EmptyResults, <<P("no_repositories_found_or_error")>>)
       ELSE IF \E k \in 1..Len(all_repos) : ~HasName(all_repos[k])
       THEN \* repo["name"] raises, and nothing catches it
            /\ Crash
            /\ UNCHANGED results
       ELSE LET local_dirs == get_subdirectories
                names == { RepoName(all_repos[k]) : k \in 1..Len(all_repos) }
                res == [n \in names |-> n \in local_dirs]
            IN  /\ results' = res
                /\ SummaryAndExit(res,
                     <<PC("checking_repositories", <<Len(all_repos)>>)>>
                     \o (IF verbose /\ ~quiet
                         THEN ItemLines("item", SortNames(names))
                         ELSE ItemLines("item", SortNames(NamesWith(res, FALSE)))))
    /\ UNCHANGED <<prog, calls, argUser, inverse, quiet, verbose, dirState,
                   localDirs, remote, username, endpoints, fetch, stdout, all_repos, todo>>
    /\ UNCHANGED notGh

(***************************************************************************)
(* youtube_thumbnail_grabber.py                                            *)
(***************************************************************************)
Jpg == <<".", "j", "p", "g">>
Jpeg == <<".", "j", "p", "e", "g">>
Png == <<".", "p", "n", "g">>
Webp == <<".", "w", "e", "b", "p">>
Gif == <<".", "g", "i", "f">>
PartSuffix == <<".", "p", "a", "r", "t">>

THUMBNAIL_EXTENSIONS == <<Jpg, Jpeg, Png, Webp>>

\* the index of the last "." of a name, 0 when it has none
RECURSIVE LastDot(_, _)
LastDot(s, i) ==
    IF i = 0 THEN 0 ELSE IF s[i] = "." THEN i ELSE LastDot(s, i - 1)

\* os.path.splitext(name)[0]: the name without its extension; a name made of
\* leading dots only up to its last dot has no extension
SplitExtRoot(name) ==
    LET i == LastDot(name, Len(name))
    IN  IF i = 0 \/ \A k \in 1..(i - 1) : name[k] = "." THEN name
        ELSE SubSeq(name, 1, i - 1)

\* PurePath.suffix: from the last dot, unless the dot starts or ends the name
Suffix(name) ==
    LET i == LastDot(name, Len(name))
    IN  IF 1 < i /\ i < Len(name) THEN SubSeq(name, i, Len(name)) ELSE <<>>

\* PurePath.with_suffix(ext)
WithSuffix(name, ext) ==
    SubSeq(name, 1, Len(name) - Len(Suffix(name))) \o ext

HasPrefix(s, p) == Len(s) >= Len(p) /\ SubSeq(s, 1, Len(p)) = p

File(dir, name) == [dir |-> dir, name |-> name]

TalkBase == <<"T", "a", "l", "k", " ", "[", "X", "y", "Z", "9", "8", "7", "]">>
TalkId == <<"X", "y", "Z", "9", "8", "7">>
ClipBase == <<"C", "l", "i", "p", " ", "[", "a", "b", "c", "1", "2", "3", "]">>
TempPrefix == <<"t", "e", "m", "p", "_">>

TalkVideo == File(".", TalkBase \o <<".", "m", "k", "v">>)
TalkThumbnail == File(".", TalkBase \o Jpg)
Notes == File(".", <<"n", "o", "t", "e", "s", ".", "t", "x", "t">>)
TalkPartial == File(".", TempPrefix \o TalkId \o PartSuffix)
ClipVideo == File("sub", ClipBase \o <<".", "m", "p", "4">>)

\* what the directory holds when the first run starts: nothing; a file
\* without identifier; a video, alone, with its thumbnail, or beside an
\* unrelated file and a partial download; and a second video in a
\* subdirectory
CandidateFiles ==
    { {},
      {Notes},
      {TalkVideo},
      {TalkVideo, TalkThumbnail},
      {TalkVideo, Notes, TalkPartial},
      {TalkVideo, ClipVideo},
      {TalkVideo, TalkThumbnail, ClipVideo} }

\* find_existing_thumbnail: the first <base_name><ext> that exists, in the
\* order of THUMBNAIL_EXTENSIONS
RECURSIVE FirstExisting(_, _, _, _)
FirstExisting(fs, dir, stem, exts) ==
    IF exts = <<>> THEN {}
    ELSE IF File(dir, stem \o Head(exts)) \in fs THEN {File(dir, stem \o Head(exts))}
    ELSE FirstExisting(fs, dir, stem, Tail(exts))

\* the set holds the path returned; it is empty for None
find_existing_thumbnail(fs, dir, base_name) ==
    FirstExisting(fs, dir, base_name, THUMBNAIL_EXTENSIONS)

RECURSIVE FirstWithSuffix(_, _, _, _)
FirstWithSuffix(fs, dir, temp, exts) ==
    IF exts = <<>> THEN {}
    ELSE IF File(dir, WithSuffix(temp, Head(exts))) \in fs
         THEN {File(dir, WithSuffix(temp, Head(exts)))}
    ELSE FirstWithSuffix(fs, dir, temp, Tail(exts))

\* find_downloaded_thumbnail: the paths the call can return (none for None).
\* The glob yields the matches in directory order, which is not specified:
\* any match that is not a ".part" file can be the first one.
find_downloaded_thumbnail(fs, dir, temp) ==
    LET known == FirstWithSuffix(fs, dir, temp, THUMBNAIL_EXTENSIONS)
    IN  IF known # {} THEN known
        ELSE { f \in fs : /\ f.dir = dir
                          /\ HasPrefix(f.name, temp \o <<".">>)
                          /\ Lower(Suffix(f.name)) # PartSuffix }

\* what yt-dlp can do: fail, not start, or end well having written the
\* thumbnail as temp_<id><ext>, or having written nothing
\* the call is made without timeout=, so a yt-dlp that never ends is waited
\* for without end
DownloadOutcomes == {"nonzero", "exception", "ok", "hangs"}

\* main, line 180: how `yt-dlp --version` can end; it too has no timeout=
VersionOutcomes == {"ok", "nonzero", "not_installed", "hangs"}
ArtifactSuffixes == {Webp, Gif}

YtStart ==
    /\ prog = "youtube_thumbnail_grabber"
    /\ pc = "check_directory"
    /\ printed = <<>>
    /\ calls = <<>>
    /\ exitCode = -1
    /\ execute \in BOOLEAN
    /\ recursive \in BOOLEAN
    /\ tdir \in {"missing", "file", "dir"}
    /\ files \in CandidateFiles
    /\ tdir # "dir" => files = {}
    /\ files0 = files
    /\ tasks = <<>>
    /\ total_to_process = 0
    /\ files_processed = 0
    /\ files_successful = 0
    /\ located = {}
    /\ attempts = <<>>
    /\ run = 1

YtIdle ==
    /\ execute = FALSE
    /\ recursive = FALSE
    /\ tdir = "missing"
    /\ files = {}
    /\ files0 = {}
    /\ tasks = <<>>
    /\ total_to_process = 0
    /\ files_processed = 0
    /\ files_successful = 0
    /\ located = {}
    /\ attempts = <<>>
    /\ run = 0

\* the flag is not read: every run downloads
dry_run_ignored == FALSE

\* main, line 160
dry_run == ~execute

\* main, lines 159-175
YtCheckDirectory ==
    /\ prog = "youtube_thumbnail_grabber" /\ pc = "check_directory"
    /\ IF tdir = "missing" THEN Exit(1, <<P("directory_not_found")>>)
       ELSE /\ printed' = printed \o <<P("processing_files_in")>>
                \o (IF recursive THEN <<P("recursive_mode")>> ELSE <<>>)
                \o (IF dry_run THEN <<P("dry_run_mode")>> ELSE <<P("execute_mode")>>)
            /\ pc' = IF dry_run THEN "enumerate" ELSE "check_downloader"
            /\ UNCHANGED exitCode
    /\ UNCHANGED <<prog, calls, ytVars>>
    /\ UNCHANGED notYt

\* main, lines 177-184
CheckDownloader ==
    /\ prog = "youtube_thumbnail_grabber" /\ pc = "check_downloader"
    /\ \E o \in VersionOutcomes :
        /\ calls' = Append(calls, Call("yt-dlp --version", <<>>, o))
        /\ IF o = "ok"
           THEN /\ pc' = "enumerate"
                /\ UNCHANGED <<printed, exitCode>>
           ELSE IF o = "hangs"
           THEN /\ Hang
                /\ UNCHANGED <<printed, exitCode>>
           ELSE Exit(1, <<P("error_yt_dlp_not_found")>>)
    /\ UNCHANGED <<prog, ytVars>>
    /\ UNCHANGED notYt

\* the next turn of the loop of process_directory, or the end of the run
AfterTask(rest) == IF rest = <<>> THEN "summary" ELSE "start_task"

\* process_directory, lines 96-112: the files of the directory (of its
\* subdirectories too with -R) whose name holds an identifier.  The order of
\* a directory listing is not specified; the model takes the files by
\* directory, then by name.
Enumerate ==
    /\ prog = "youtube_thumbnail_grabber" /\ pc = "enumerate"
    /\ IF tdir = "file" /\ ~recursive
       THEN \* iterdir() raises NotADirectoryError, and nothing catches it
            /\ Crash
            /\ UNCHANGED <<tasks, total_to_process>>
       ELSE LET listed == { f \in files : recursive \/ f.dir = "." }
                with_id == { f \in listed : extract_video_id(f.name).found }
                top == SortNames({ f.name : f \in { g \in with_id : g.dir = "." } })
                sub == SortNames({ f.name : f \in { g \in with_id : g.dir = "sub" } })
                found == [k \in 1..Len(top) |-> File(".", top[k])]
                           \o [k \in 1..Len(sub) |-> File("sub", sub[k])]
            IN  /\ tasks' = found
                /\ total_to_process' = Len(found)
                /\ pc' = AfterTask(found)
                /\ UNCHANGED <<printed, exitCode>>
    /\ files_processed' = 0
    /\ files_successful' = 0
    /\ UNCHANGED <<prog, calls, execute, recursive, tdir, files, files0, located,
                   attempts, run>>
    /\ UNCHANGED notYt

\* the task of the current turn of the loop
Task == Head(tasks)
TaskId == extract_video_id(Task.name).id
TaskBase == SplitExtRoot(Task.name)
TempName == TempPrefix \o TaskId

Attempt(outcome, invoked) ==
    [run |-> run, file |-> Task, outcome |-> outcome, invoked |-> invoked]

\* a loop that a failed download ends
TaskReturnsAborting(success, outcome, invoked, msgs) ==
    /\ files_successful' = files_successful + (IF success THEN 1 ELSE 0)
    /\ files_processed' = files_processed + 1
    /\ printed' = printed \o msgs
         \o (IF ~execute THEN <<>>
             ELSE <<PC("remaining", <<Len(tasks) - 1, total_to_process>>)>>)
    /\ attempts' = Append(attempts,
                          [run |-> run, file |-> Head(tasks), outcome |-> outcome,
                           invoked |-> invoked])
    /\ tasks' = IF success THEN Tail(tasks) ELSE <<>>
    /\ pc' = IF success /\ Tail(tasks) # <<>> THEN "start_task" ELSE "summary"

\* process_directory, lines 124-131: download_thumbnail has returned success
TaskReturns(success, outcome, invoked, msgs) ==
    /\ files_successful' = files_successful + (IF success THEN 1 ELSE 0)
    /\ files_processed' = files_processed + 1
    /\ printed' = printed \o msgs
         \o (IF dry_run THEN <<>>
             ELSE <<PC("remaining", <<Len(tasks) - 1, total_to_process>>)>>)
    /\ attempts' = Append(attempts, Attempt(outcome, invoked))
    /\ tasks' = Tail(tasks)
    /\ pc' = AfterTask(Tail(tasks))

TaskHeader == <<PN("processing", Task.name), PN("video_id", TaskId)>>

\* process_directory, lines 114-124, and download_thumbnail, lines 43-58
StartTask ==
    /\ prog = "youtube_thumbnail_grabber" /\ pc = "start_task"
    /\ IF find_existing_thumbnail(files, Task.dir, TaskBase) # {}
       THEN TaskReturns(TRUE, "alreadyPresent", FALSE,
                        TaskHeader \o <<PN("thumbnail_already_exists", TaskBase)>>)
       ELSE IF dry_run
       THEN TaskReturns(TRUE, "dryRun", FALSE,
                        TaskHeader \o <<PN("dry_run_would_download", TaskId),
                                        PN("dry_run_would_save_as", TaskBase \o Jpg)>>)
       ELSE /\ pc' = "fetching"
            /\ printed' = printed \o TaskHeader
            /\ UNCHANGED <<tasks, files_processed, files_successful, attempts>>
    /\ UNCHANGED <<prog, calls, exitCode, execute, recursive, tdir, files, files0,
                   total_to_process, located, run>>
    /\ UNCHANGED notYt

\* download_thumbnail, lines 60-77 and 85-93: yt-dlp runs, then the search
\* for the file it wrote
DownloaderReturns ==
    /\ prog = "youtube_thumbnail_grabber" /\ pc = "fetching"
    /\ \E o \in DownloadOutcomes :
        /\ calls' = Append(calls, Call("yt-dlp --write-thumbnail", TaskId, o))
        /\ \/ /\ o = "nonzero"
              /\ TaskReturns(FALSE, "error", TRUE, <<PN("failed_to_download", TaskId)>>)
              /\ UNCHANGED <<files, located>>
           \/ /\ o = "exception"
              /\ TaskReturns(FALSE, "exception", TRUE, <<PN("error_processing", TaskId)>>)
              /\ UNCHANGED <<files, located>>
           \/ /\ o = "hangs"
              /\ Hang
              /\ UNCHANGED <<printed, files, located, tasks, files_processed,
                             files_successful, attempts>>
           \/ /\ o = "ok"
              /\ \E written \in {{}} \cup { {File(Task.dir, TempName \o x)} : x \in ArtifactSuffixes } :
                  /\ files' = files \cup written
                  /\ LET can == find_downloaded_thumbnail(files', Task.dir, TempName)
                     IN  IF can = {}
                         THEN /\ TaskReturns(FALSE, "notFound", TRUE,
                                             <<PN("thumbnail_file_not_found", TaskId)>>)
                              /\ UNCHANGED located
                         ELSE /\ \E f \in can : located' = {f}
                              /\ pc' = "located"
                              /\ UNCHANGED <<printed, tasks, files_processed,
                                             files_successful, attempts>>
    /\ UNCHANGED <<prog, exitCode, execute, recursive, tdir, files0,
                   total_to_process, run>>
    /\ UNCHANGED notYt

\* download_thumbnail, lines 78-83 and 91-93: the rename, which can fail
RenameArtifact ==
    /\ prog = "youtube_thumbnail_grabber" /\ pc = "located"
    /\ LET downloaded_thumbnail == CHOOSE f \in located : TRUE
           final_thumbnail ==
               File(Task.dir, TaskBase \o Lower(Suffix(downloaded_thumbnail.name)))
       IN  \/ /\ files' = (files \ {downloaded_thumbnail}) \cup {final_thumbnail}
              /\ TaskReturns(TRUE, "renamed", TRUE, <<PN("downloaded_thumbnail", TaskBase)>>)
           \/ /\ TaskReturns(FALSE, "renameError", TRUE, <<PN("error_processing", TaskId)>>)
              /\ UNCHANGED files
    /\ located' = {}
    /\ UNCHANGED <<prog, calls, exitCode, execute, recursive, tdir, files0,
                   total_to_process, run>>
    /\ UNCHANGED notYt

\* main, lines 186-195: the summary; the process ends with status 0
FinishRun ==
    /\ prog = "youtube_thumbnail_grabber" /\ pc = "summary"
    /\ Exit(0, <<PC("files_processed", <<files_processed>>)>>
               \o (IF dry_run
                   THEN <<PC("would_download", <<files_successful>>)>>
                   ELSE <<PC("thumbnails_downloaded", <<files_successful>>),
                          PC("failed", <<files_processed - files_successful>>)>>))
    /\ UNCHANGED <<prog, calls, ytVars>>
    /\ UNCHANGED notYt

\* the script is run again, with the same arguments, on the directory as the
\* run before left it
RunAgain ==
    /\ prog = "youtube_thumbnail_grabber" /\ pc = "exited" /\ exitCode = 0
    /\ run < MaxRuns
    /\ run' = run + 1
    /\ pc' = "check_directory"
    /\ printed' = <<>>
    /\ calls' = <<>>
    /\ exitCode' = -1
    /\ files0' = files
    /\ attempts' = SelectSeq(attempts, LAMBDA a : a.run = run /\ a.outcome = "renamed")
    /\ UNCHANGED <<prog, execute, recursive, tdir, files, tasks,
                   total_to_process, files_processed, files_successful, located>>
    /\ UNCHANGED notYt

(***************************************************************************)
(* Specifications                                                          *)
(***************************************************************************)
vars == <<parseVars, extractVars, runVars, ghVars, ytVars>>

RunIdle ==
    /\ prog = "none"
    /\ pc = "idle"
    /\ printed = <<>>
    /\ calls = <<>>
    /\ exitCode = -1

\* parse_paginated_json on the pages of a response
ParseNext == ParsePaginatedJson /\ UNCHANGED <<extractVars, runVars, ghVars, ytVars>>

\* only parse_paginated_json runs
ParseInit == ParseStart /\ ExtractIdle /\ RunIdle /\ GhIdle /\ YtIdle

SpecParse == ParseInit /\ [][ParseNext]_vars

\* extract_video_id on a file name
ExtractNext == ExtractVideoId /\ UNCHANGED <<parseVars, runVars, ghVars, ytVars>>

\* only extract_video_id runs
ExtractInit == ExtractStart /\ ParseIdle /\ RunIdle /\ GhIdle /\ YtIdle

SpecExtract == ExtractInit /\ [][ExtractNext]_vars

\* a run of either script
Init ==
    /\ ParseIdle /\ ExtractIdle
    /\ \/ GhStart /\ YtIdle
       \/ YtStart /\ GhIdle

Next ==
    \/ CheckGhInstalled
    \/ ResolveUsername
    \/ CheckDirectory
    \/ ScanSubdirectories
    \/ CheckRepo
    \/ FinishForward
    \/ FetchIdentity
    \/ FetchRepos
    \/ ReconcileInverse
    \/ YtCheckDirectory
    \/ CheckDownloader
    \/ Enumerate
    \/ StartTask
    \/ DownloaderReturns
    \/ RenameArtifact
    \/ FinishRun
    \/ RunAgain

Spec == Init /\ [][Next]_vars

(***************************************************************************)
(* Claims                                                                  *)
(***************************************************************************)
\* C1 (as claimed): parse_paginated_json applied to N >= 1 well-formed pages
\* written back to back returns the records of all the pages, in order,
\* whatever the records hold and however the pages are laid out
C1_Concatenation ==
    ppc = "done" => (~parsed.raised /\ parsed.repos = AllRecords(pages))

\* a bracket pair: a "[" with a "]" somewhere after it
PairAt(s, i) == s[i] = "[" /\ \E j \in (i + 1)..Len(s) : s[j] = "]"
HasBracketPair(s) == \E i \in 1..Len(s) : PairAt(s, i)
FirstOpen(s) == CHOOSE i \in 1..Len(s) : PairAt(s, i) /\ \A k \in 1..(i - 1) : ~PairAt(s, k)
FirstCloseAfter(s, i) ==
    CHOOSE j \in (i + 1)..Len(s) : s[j] = "]" /\ \A k \in (i + 1)..(j - 1) : s[k] # "]"
FirstPairContent(s) == SubSeq(s, FirstOpen(s) + 1, FirstCloseAfter(s, FirstOpen(s)) - 1)

\* C6 (as claimed): the identifier is the content of the leftmost bracket
\* pair, and there is no identifier exactly when the name has no bracket pair
C6_FirstBracketPair ==
    epc = "done" =>
        /\ video_id.found <=> HasBracketPair(filename)
        /\ video_id.found => video_id.id = FirstPairContent(filename)

\* a bracket group: "[", at least one character, none of them "]", then "]"
GroupAt(s, i, j) ==
    /\ s[i] = "[" /\ s[j] = "]" /\ j > i + 1
    /\ \A k \in (i + 1)..(j - 1) : s[k] # "]"
Groups(s) == { g \in (1..Len(s)) \X (1..Len(s)) : GroupAt(s, g[1], g[2]) }
LeftmostGroup(s) == CHOOSE g \in Groups(s) : \A h \in Groups(s) : g[1] <= h[1]

\* C6 (amended): the identifier is the content of the leftmost non-empty
\* bracket group, and there is no identifier exactly when the name has none
\* (an empty pair "[]" is passed over); the three examples of the spec hold
C6_FirstNonEmptyGroup ==
    epc = "done" =>
        /\ video_id.found <=> Groups(filename) # {}
        /\ video_id.found =>
              video_id.id = SubSeq(filename, LeftmostGroup(filename)[1] + 1,
                                   LeftmostGroup(filename)[2] - 1)
        /\ filename = IntroAbc123 => video_id = Some(<<"a", "b", "c", "1", "2", "3">>)
        /\ filename = NoBrackets => video_id = None
        /\ filename = FirstSecond => video_id = Some(<<"f", "i", "r", "s", "t">>)

\* an empty pair comes before the group that gives the identifier
C6_Witness ==
    /\ epc = "done"
    /\ filename = <<"[", "]", "[", "a", "]">>
    /\ video_id = Some(<<"a">>)

(***************************************************************************)
(* Claims about a run of a script (Spec)                                   *)
(***************************************************************************)
GhRun == prog = "check_gh_repos"
YtRun == prog = "youtube_thumbnail_grabber"

LastPrinted == printed[Len(printed)]

\* what a run prints when a precondition fails
PreconditionMessages ==
    { P("error_gh_not_installed_or_authenticated"),
      P("error_could_not_determine_username"),
      P("error_directory_not_found"),
      P("error_not_a_directory"),
      P("directory_not_found"),
      P("error_yt_dlp_not_found") }

\* the reconciliation passed its preconditions and ended at the last line of main
Reconciled ==
    /\ GhRun /\ pc = "exited"
    /\ ~(printed # <<>> /\ LastPrinted \in PreconditionMessages)

\* the calls of check_github_repo_exists made so far
Lookups == SelectSeq(calls, LAMBDA c : c.cmd = "gh api /repos")

\* the bulk listing did not give the repositories of the account
FailedFetch == fetch \in {"parse_error", "nonzero", "timeout", "exception"}

\* C2: when the whole output is not one JSON value and a chunk of it does not
\* parse, the parse fails as a whole: get_user_repos returns the empty list,
\* not the records of the chunks before the bad one, and the run has no result
C2_NoPartialResult ==
    (GhRun /\ fetch \in {"listed", "parse_error"}) =>
        LET out == Strip(stdout)
            chunks == Chunks(out)
        IN  (/\ ~JsonLoads(out).ok
             /\ \E k \in 1..Len(chunks) : ~JsonLoads(chunks[k]).ok)
            => /\ fetch = "parse_error"
               /\ all_repos = <<>>
               /\ pc = "exited" => results = EmptyResults

\* the first page of the response parses, the second one is cut short
C2_Witness ==
    /\ GhRun /\ pc = "exited" /\ fetch = "parse_error"
    /\ Len(Chunks(Strip(stdout))) = 2
    /\ JsonLoads(Chunks(Strip(stdout))[1]).ok
    /\ ~JsonLoads(Chunks(Strip(stdout))[2]).ok
    /\ all_repos = <<>>

\* C3 (as claimed): past the preconditions, the exit status is 0 exactly when
\* the gap is empty: forward, the local names the account does not hold;
\* inverse, the repositories of the account with no local directory
C3_ExitStatusIffNoGap ==
    Reconciled =>
        LET L == get_subdirectories
            gap == IF inverse THEN remote \ L ELSE L \ remote
        IN  exitCode = (IF gap = {} THEN 0 ELSE 1)

\* C4 (as claimed): an inverse run whose bulk listing failed, for an account
\* that holds repositories, has no records, and does not end as a run for an
\* account without repositories does: it
\* neither prints that no repositories were found nor exits with the status
\* of "no gap"
C4_FailedFetchSurfaced ==
    (Reconciled /\ inverse /\ FailedFetch /\ remote # {}) =>
        /\ all_repos = <<>>
        /\ P("no_repositories_found_or_error") \notin Range(printed)
        /\ exitCode # 0

\* C5 (as claimed): whatever the outcomes of the lookups, the forward run
\* reports missing exactly L \ R and found exactly L \cap R; the inverse run
\* (here: one whose listing succeeded) reports not cloned exactly R \ L and
\* cloned exactly R \cap L, so that found and cloned are the same set
C5_ExactDifferences ==
    Reconciled =>
        LET L == get_subdirectories
        IN  IF inverse
            THEN fetch = "listed" =>
                   /\ NamesWith(results, FALSE) = remote \ L
                   /\ NamesWith(results, TRUE) = remote \cap L
            ELSE /\ NamesWith(results, FALSE) = L \ remote
                 /\ NamesWith(results, TRUE) = L \cap remote

\* C7 (as claimed): a file whose thumbnail a run downloaded and renamed is
\* not downloaded again by the next run, whatever extension yt-dlp gave it
C7_SecondRunSkips ==
    \A i, j \in DOMAIN attempts :
        (/\ attempts[i].outcome = "renamed"
         /\ attempts[j].run = attempts[i].run + 1
         /\ attempts[j].file = attempts[i].file)
        => ~attempts[j].invoked

\* the files process_directory enumerates, as the directory was at the start
Enumerated ==
    { f \in files0 : (recursive \/ f.dir = ".") /\ extract_video_id(f.name).found }

IdOf(f) == extract_video_id(f.name).id

HasThumbnail(f) == find_existing_thumbnail(files0, f.dir, SplitExtRoot(f.name)) # {}

DryRunEnded == YtRun /\ ~execute /\ pc = "exited" /\ exitCode = 0

\* a dry run starts no process and leaves every file as it was
DryRunFrame == (YtRun /\ ~execute) => (calls = <<>> /\ files = files0)

\* C8 (as claimed): a dry run starts no process and changes no file, and it
\* prints the URL it would download for every file with an identifier
C8_DryRunPrintsEveryUrl ==
    /\ DryRunFrame
    /\ DryRunEnded =>
         \A f \in Enumerated : PN("dry_run_would_download", IdOf(f)) \in Range(printed)

\* C8 (amended): a dry run starts no process and changes no file; for a file
\* with an identifier it prints the URL it would download unless a thumbnail
\* of a recognised extension is already beside the file, and then it prints
\* that the thumbnail exists, and no URL
C8_DryRun ==
    /\ DryRunFrame
    /\ DryRunEnded =>
         /\ \A f \in Enumerated :
              IF HasThumbnail(f)
              THEN PN("thumbnail_already_exists", SplitExtRoot(f.name)) \in Range(printed)
              ELSE PN("dry_run_would_download", IdOf(f)) \in Range(printed)
         /\ \A k \in DOMAIN printed :
              printed[k].msg = "dry_run_would_download" =>
                \E f \in Enumerated : IdOf(f) = printed[k].name /\ ~HasThumbnail(f)

\* a recursive dry run over a file whose thumbnail exists and one without
C8_Witness ==
    /\ DryRunEnded /\ recursive
    /\ File(".", TalkBase \o <<".", "m", "k", "v">>) \in files0
    /\ File(".", TalkBase \o Jpg) \in files0
    /\ File("sub", ClipBase \o <<".", "m", "p", "4">>) \in files0
    /\ PN("dry_run_would_download", <<"a", "b", "c", "1", "2", "3">>) \in Range(printed)
    /\ PN("dry_run_would_download", TalkId) \notin Range(printed)

\* the precondition of the reconciliation that failed first, "none" if none did
GhFailure ==
    IF Len(calls) >= 1 /\ calls[1].outcome \in {"nonzero", "not_installed"}
    THEN "error_gh_not_installed_or_authenticated"
    ELSE IF /\ argUser = NoUser /\ Len(calls) >= 2
            /\ calls[2].cmd = "gh api user" /\ calls[2].outcome # "login"
    THEN "error_could_not_determine_username"
    ELSE IF pc \in {"check_gh", "resolve_user", "check_dir", "crashed"} THEN "none"
    ELSE IF dirState = "missing" THEN "error_directory_not_found"
    ELSE IF dirState = "file" THEN "error_not_a_directory"
    ELSE "none"

\* the precondition of the thumbnail run that failed first, "none" if none did
YtFailure ==
    IF tdir = "missing" /\ pc # "check_directory" THEN "directory_not_found"
    ELSE IF /\ execute /\ Len(calls) >= 1
            /\ calls[1].cmd = "yt-dlp --version"
            /\ calls[1].outcome \in {"nonzero", "not_installed"}
    THEN "error_yt_dlp_not_found"
    ELSE "none"

\* C9: a precondition that fails ends the run at once: the diagnostic is the
\* last thing printed, the exit status is 1, and no lookup, no bulk listing,
\* no download and no rename has taken place
C9_PreconditionFatal ==
    /\ (GhRun /\ GhFailure # "none") =>
         /\ pc = "exited" /\ exitCode = 1
         /\ LastPrinted = P(GhFailure)
         /\ \A k \in DOMAIN calls : calls[k].cmd \notin {"gh api /repos", "gh api --paginate"}
         /\ results = EmptyResults /\ todo = <<>> /\ all_repos = <<>>
    /\ (YtRun /\ YtFailure # "none") =>
         /\ pc = "exited" /\ exitCode = 1
         /\ LastPrinted = P(YtFailure)
         /\ \A k \in DOMAIN calls : calls[k].cmd # "yt-dlp --write-thumbnail"
         /\ \A k \in DOMAIN attempts : attempts[k].run # run
         /\ files = files0

\* the directory argument of the reconciliation names a file
C9_Witness ==
    /\ GhRun /\ dirState = "file" /\ pc = "exited" /\ exitCode = 1
    /\ GhFailure = "error_not_a_directory"
    /\ Len(calls) = 2

\* the calls of download_thumbnail of the current run
ThisRun == SelectSeq(attempts, LAMBDA a : a.run = run)

Count(seq, Test(_)) == Len(SelectSeq(seq, Test))

TimeoutCaught ==
    ~(/\ pc = "crashed" /\ calls # <<>>
      /\ calls[Len(calls)].outcome = "timeout")

\* no call waits without end for its child
NeverBlocked == pc # "blocked"

\* a call that timed out is not made again in the same run
TimeoutNotRetried ==
    \A i, j \in DOMAIN calls :
        (i < j /\ calls[i].outcome = "timeout")
            => ~(calls[j].cmd = calls[i].cmd /\ calls[j].arg = calls[i].arg)

\* C11 (as claimed): every call of an external process, in either script, has
\* a timeout, so that no call blocks forever; a call whose timeout expires
\* gives its caller a failure value, never an exception nothing catches; and
\* it is not made again
C11_EveryCallTimeBounded ==
    /\ NeverBlocked
    /\ TimeoutCaught
    /\ TimeoutNotRetried

\* how a task can end in execute mode; "exception" and "renameError" are the
\* error that download_thumbnail reports as "Error processing"
TerminalStates == {"alreadyPresent", "renamed", "notFound", "error", "exception", "renameError"}
SuccessStates == {"alreadyPresent", "renamed"}

\* the files <baseName>.<ext> beside a task's file
Placed(f, fs) ==
    { g \in fs : g.dir = f.dir /\ g # f /\ SplitExtRoot(g.name) = SplitExtRoot(f.name) }

Fetches == Count(calls, LAMBDA c : c.cmd = "yt-dlp --write-thumbnail")

\* a task that is in fetching for ever: yt-dlp does not end and nothing
\* ends the wait
TaskStuck == YtRun /\ pc = "blocked" /\ tasks # <<>>

\* what holds of the tasks of an execute run, at every moment: a task ends
\* once, in one of the terminal states; yt-dlp has run once for each task
\* that passed through fetching and for no other, so never twice for one
\* task; success is counted for alreadyPresent and renamed only
C12_TaskSafety ==
    (/\ YtRun /\ execute
     /\ \/ pc \in {"start_task", "fetching", "located", "summary"}
        \/ pc = "exited" /\ exitCode = 0
        \/ TaskStuck) =>
        /\ \A k \in DOMAIN ThisRun :
             /\ ThisRun[k].outcome \in TerminalStates
             /\ ThisRun[k].invoked = (ThisRun[k].outcome # "alreadyPresent")
             /\ \A j \in DOMAIN ThisRun : ThisRun[j].file = ThisRun[k].file => j = k
        /\ tasks # <<>> => \A k \in DOMAIN ThisRun : ThisRun[k].file # Task
        /\ Fetches = Count(ThisRun, LAMBDA a : a.invoked)
                        + (IF pc = "located" \/ TaskStuck THEN 1 ELSE 0)
        /\ files_successful = Count(ThisRun, LAMBDA a : a.outcome \in SuccessStates)

\* the steps of a task: pending -> alreadyPresent | fetching;
\* fetching -> located | notFound | error; located -> renamed | error.  After a
\* terminal state the loop is at the next task or at the summary.  A file
\* <baseName>.<ext> appears beside the task's file in the step to renamed and
\* in no other.
TaskStep ==
    (YtRun /\ execute) =>
        /\ pc = "start_task" =>
             \/ pc' = "fetching" /\ attempts' = attempts
             \/ /\ pc' \in {"start_task", "summary"}
                /\ attempts' = Append(attempts, Attempt("alreadyPresent", FALSE))
        /\ pc = "fetching" =>
             \/ pc' = "located" /\ attempts' = attempts
             \/ pc' = "blocked" /\ attempts' = attempts
             \/ /\ pc' \in {"start_task", "summary"}
                /\ \E o \in {"notFound", "error", "exception"} :
                     attempts' = Append(attempts, Attempt(o, TRUE))
        /\ pc = "located" =>
             /\ pc' \in {"start_task", "summary"}
             /\ \E o \in {"renamed", "renameError"} :
                  attempts' = Append(attempts, Attempt(o, TRUE))
        /\ (pc \in {"start_task", "fetching", "located"}
             /\ Placed(Task, files') # Placed(Task, files)) =>
                attempts' = Append(attempts, Attempt("renamed", TRUE))
        /\ (pc = "located" /\ attempts' = Append(attempts, Attempt("renamed", TRUE))) =>
                Placed(Task, files') # {}

C12_TaskSteps == [][TaskStep]_vars

\* C12 (as claimed): in execute mode every task reaches exactly one terminal
\* state along pending -> alreadyPresent, pending -> fetching -> located ->
\* renamed, or fetching -> notFound / error; yt-dlp is run at most once for
\* it; success is reported for alreadyPresent and renamed only; and a task
\* that failed has placed no <baseName>.<ext>
C12_TaskLifecycle ==
    /\ C12_TaskSafety
    /\ ~TaskStuck

=============================================================================
